---- MODULE Spec2Model ----
(***************************************************************************)
(* Host side of the UKMarsBot serial protocol                              *)
(* (pi_software/robot_control.py): the reply waits, the blocking commands  *)
(* and the reset_arduino sequence, run against a device that may send any  *)
(* of a small set of lines.  Byte strings are sequences of byte values;    *)
(* Python values that the code compares across types carry their type.     *)
(***************************************************************************)
EXTENDS Integers, Sequences, FiniteSets, TLC

VARIABLES
    pc,                   \* position of the running program
    running,              \* FALSE once an exception has left main()
    fault,                \* the exception that was raised, or NoFault
    numeric_error_codes,  \* global, line 88
    echo_on,              \* global, line 89
    found,                \* reset_arduino local
    count,                \* reset_arduino local
    lines,                \* reset_arduino local: last port.readlines() result
    expected,             \* blocking_process_reply argument
    data,                 \* last port.read_until() result of the running wait
    drained,              \* terminated lines the running clear_replies has read,
                          \* counted up to MaxDrain
    okret,                \* TRUE once blocking_process_reply has returned True
    reply,                \* value returned by blocking_get_reply
    written,              \* everything written to the port, in order
    dev_echo,             \* the device echoes what it receives
    dev_numeric           \* the device reports in numeric error codes

vars == <<pc, running, fault, numeric_error_codes, echo_on, found, count, lines,
          expected, data, drained, okret, reply, written, dev_echo, dev_numeric>>

(***************************************************************************)
(* Bounds of the model                                                     *)
(***************************************************************************)
\* reset commands one run may write before the model stops following it
MaxResets == 52
\* terminated lines one clear_replies call is counted to have read; the
\* count stays at this value when more arrive
MaxDrain == 2
\* lines one port.readlines() poll window returns
MaxLines == 2
\* writes after which no further command is called on its own
MaxCmdWrites == 3

(***************************************************************************)
(* Constants, commands and responses (lines 95-125)                        *)
(***************************************************************************)
NEWLINE == <<10>>

RESET_STATE_COMMAND == <<94>> \o NEWLINE
SHOW_VERSION_COMMAND == <<118>> \o NEWLINE
VERBOSE_OFF_COMMAND == <<86, 48>> \o NEWLINE
VERBOSE_ON_COMMAND == <<86, 49>> \o NEWLINE
ECHO_OFF_COMMAND == <<69, 48>> \o NEWLINE
ECHO_ON_COMMAND == <<69, 49>> \o NEWLINE
OK_COMMAND == <<63>> \o NEWLINE
SWITCH_READ_COMMAND == <<115>> \o NEWLINE
CONTROL_C_ETX == <<3>>
CONTROL_X_CAN == <<24>>

UNSOLICITED_PREFIX == <<64>>
ERROR_PREFIX == <<64, 69, 114, 114, 111, 114, 58>>
RESET_STATE_RETURN == <<82, 83, 84>>
OK_RESULT_VERBOSE == <<79, 75>>
OK_RESULT_NUMERIC == ERROR_PREFIX \o <<48>>

ResyncCountInit == 50
ResyncCountReload == 200

(***************************************************************************)
(* Exceptions (lines 133-143)                                              *)
(***************************************************************************)
NoFault == [cls |-> "none", msg |-> ""]
\* an exception raised without saying what went wrong
SerialSyncErrorNoMessage(m) == [cls |-> "SerialSyncError", msg |-> "sync error"]
SerialSyncError(m) == [cls |-> "SerialSyncError", msg |-> m]

(***************************************************************************)
(* Python bytes operations as the code uses them                           *)
(***************************************************************************)
PyBytes(b) == [type |-> "bytes", val |-> b]
PyInt(n) == [type |-> "int", val |-> n]
\* == between Python objects: values of different types are never equal
PyEq(x, y) == x.type = y.type /\ x.val = y.val
\* data[0] of a non-empty bytes object is an int
Index0(d) == PyInt(d[1])
\* data[-1:] is a bytes object, empty when data is
LastSlice(d) == IF Len(d) = 0 THEN <<>> ELSE <<d[Len(d)]>>
\* data.startswith(prefix)
StartsWith(d, p) == Len(p) <= Len(d) /\ SubSeq(d, 1, Len(p)) = p
\* NEWLINE in data
ContainsNewline(d) == \E i \in 1..Len(d) : <<d[i]>> = NEWLINE

\* a test for "something was read" in place of the test for the terminator
HasTerminatorAnyData(d) == Len(d) > 0
\* data[-1:] == NEWLINE (lines 174, 197)
HasTerminator(d) == PyEq(PyBytes(LastSlice(d)), PyBytes(NEWLINE))
\* data[0] == UNSOLICITED_PREFIX (lines 178, 199, 216)
IsUnsolicited(d) == PyEq(Index0(d), PyBytes(UNSOLICITED_PREFIX))

(***************************************************************************)
(* What the device may send                                                *)
(***************************************************************************)
F_OK == OK_RESULT_VERBOSE \o NEWLINE
F_OKAY == OK_RESULT_VERBOSE \o <<65, 89>> \o NEWLINE
F_ERR0 == OK_RESULT_NUMERIC \o NEWLINE
F_ERR5 == ERROR_PREFIX \o <<53>> \o NEWLINE
F_INFO == <<64, 76, 111, 119, 32, 98, 97, 116, 116, 101, 114, 121>> \o NEWLINE
F_VERSION == <<86, 50, 46, 49>> \o NEWLINE
F_RST == RESET_STATE_RETURN \o NEWLINE
F_ECHO == OK_COMMAND
P_EMPTY == <<>>
P_OK == OK_RESULT_VERBOSE
P_RST == RESET_STATE_RETURN

\* results of one port.read_until(expected=NEWLINE): a terminated line, or what
\* had arrived when the read timed out
TerminatedReads == {F_OK, F_OKAY, F_ERR0, F_ERR5, F_INFO, F_VERSION, F_RST, F_ECHO}
TimedOutReads == {P_EMPTY, P_OK, P_RST}
Reads == TerminatedReads \cup TimedOutReads

\* results of one port.readlines(): terminated lines, the last one possibly cut
\* by the timeout
PollTerminated == {F_RST, F_OK, F_INFO}
PollPartial == {P_RST, P_OK}
PollWindows ==
    UNION { { w \in [1..n -> PollTerminated \cup PollPartial] :
                \A i \in 1..n : i < n => w[i] \in PollTerminated } : n \in 0..MaxLines }

(***************************************************************************)
(* Program positions                                                       *)
(***************************************************************************)
\* positions inside reset_arduino, in program order
ProgramPcs == {"main", "abort", "poll", "drain", "echo1_write", "echo1_clear",
               "echo1_set", "echo2_write", "echo2_clear", "echo2_set",
               "ok1_write", "ok1_wait", "ver_write", "ver_wait", "numeric",
               "ok2_write", "ok2_wait", "ready", "done"}
\* a wait called on its own, and its return
DirectPcs == {"bpr", "bgr", "clr", "bpr_returned", "bgr_returned", "clr_returned"}
\* the commands reset_arduino does not call, called on their own
CommandPcs == {"cmd", "echo_on_write", "echo_on_clear", "echo_on_set", "text",
               "switches", "cmd_returned"}

\* a sequence that goes from the first acknowledgement test straight to the
\* mode switch, without the version query
AfterCallNoVersion(p) ==
    CASE p = "drain" -> "echo1_write"
      [] p = "echo1_clear" -> "echo1_set"
      [] p = "echo2_clear" -> "echo2_set"
      [] p = "ok1_wait" -> "numeric"
      [] p = "ver_wait" -> "numeric"
      [] p = "ok2_wait" -> "ready"
      [] p = "bpr" -> "bpr_returned"
      [] p = "bgr" -> "bgr_returned"
      [] p = "echo_on_clear" -> "echo_on_set"
      [] OTHER -> "clr_returned"

\* where execution continues when the wait running at position p returns
AfterCall(p) ==
    CASE p = "drain" -> "echo1_write"
      [] p = "echo1_clear" -> "echo1_set"
      [] p = "echo2_clear" -> "echo2_set"
      [] p = "ok1_wait" -> "ver_write"
      [] p = "ver_wait" -> "numeric"
      [] p = "ok2_wait" -> "ready"
      [] p = "bpr" -> "bpr_returned"
      [] p = "bgr" -> "bgr_returned"
      [] p = "echo_on_clear" -> "echo_on_set"
      [] OTHER -> "clr_returned"

\* an exception that is reported and dropped where it was raised
RaiseSwallowed(exc) == fault' = exc /\ running' = TRUE

\* raise: no function of the program catches an exception, so it leaves
\* main() and the process ends where it stood
Raise(exc) == fault' = exc /\ running' = FALSE

\* process_unsolicited_data raises exactly for an error line
ProcessUnsolicitedRaises(d) == StartsWith(d, ERROR_PREFIX)

(***************************************************************************)
(* The reply waits (lines 168-219): one action is one pass of the loop     *)
(***************************************************************************)
\* a wait that takes any terminated line for the acknowledgement
BlockingProcessReplyAnyLine ==
    /\ running
    /\ pc \in {"ok1_wait", "ok2_wait", "bpr"}
    /\ \E d \in Reads :
        /\ data' = d
        /\ IF HasTerminator(d)
           THEN /\ okret' = TRUE
                /\ pc' = AfterCall(pc)
                /\ UNCHANGED <<fault, running>>
           ELSE /\ Raise(SerialSyncError("Newline not found - timeout"))
                /\ UNCHANGED <<okret, pc>>
    /\ UNCHANGED <<numeric_error_codes, echo_on, found, count, lines, expected,
                   drained, reply, written>>

\* a wait that reads again when a read times out
BlockingProcessReplyRetries ==
    /\ running
    /\ pc \in {"ok1_wait", "ok2_wait", "bpr"}
    /\ \E d \in Reads :
        /\ data' = d
        /\ IF HasTerminator(d)
           THEN IF StartsWith(d, expected)
                THEN /\ okret' = TRUE
                     /\ pc' = AfterCall(pc)
                     /\ UNCHANGED <<fault, running>>
                ELSE /\ Raise(SerialSyncError("Unexpected return data"))
                     /\ UNCHANGED <<okret, pc>>
           ELSE UNCHANGED <<okret, pc, fault, running>>
    /\ UNCHANGED <<numeric_error_codes, echo_on, found, count, lines, expected,
                   drained, reply, written>>

BlockingProcessReply ==
    /\ running
    /\ pc \in {"ok1_wait", "ok2_wait", "bpr"}
    /\ \E d \in Reads :
        /\ data' = d
        /\ IF HasTerminator(d)
           THEN IF StartsWith(d, expected)
                THEN /\ okret' = TRUE
                     /\ pc' = AfterCall(pc)
                     /\ UNCHANGED <<fault, running>>
                ELSE IF IsUnsolicited(d)
                THEN IF ProcessUnsolicitedRaises(d)
                     THEN /\ Raise(SerialSyncError("Interpreter Error code returned"))
                          /\ UNCHANGED <<okret, pc>>
                     ELSE UNCHANGED <<okret, pc, fault, running>>
                ELSE /\ Raise(SerialSyncError("Unexpected return data"))
                     /\ UNCHANGED <<okret, pc>>
           ELSE /\ Raise(SerialSyncError("Newline not found - timeout"))
                /\ UNCHANGED <<okret, pc>>
    /\ UNCHANGED <<numeric_error_codes, echo_on, found, count, lines, expected,
                   drained, reply, written>>

BlockingGetReply ==
    /\ running
    /\ pc \in {"ver_wait", "bgr"}
    /\ \E d \in Reads :
        /\ data' = d
        /\ IF HasTerminator(d)
           THEN IF IsUnsolicited(d)
                THEN IF ProcessUnsolicitedRaises(d)
                     THEN /\ Raise(SerialSyncError("Interpreter Error code returned"))
                          /\ UNCHANGED <<reply, pc>>
                     ELSE UNCHANGED <<reply, pc, fault, running>>
                ELSE /\ reply' = d
                     /\ pc' = AfterCall(pc)
                     /\ UNCHANGED <<fault, running>>
           ELSE /\ Raise(SerialSyncError("Newline not found - timeout"))
                /\ UNCHANGED <<reply, pc>>
    /\ UNCHANGED <<numeric_error_codes, echo_on, found, count, lines, expected,
                   drained, okret, written>>

ClearReplies ==
    /\ running
    /\ pc \in {"drain", "echo1_clear", "echo2_clear", "clr", "echo_on_clear"}
    /\ \E d \in Reads :
        /\ data' = d
        /\ IF ContainsNewline(d)
           THEN /\ drained' = (IF drained < MaxDrain THEN drained + 1 ELSE drained)
                /\ IF IsUnsolicited(d) /\ ProcessUnsolicitedRaises(d)
                   THEN /\ Raise(SerialSyncError("Interpreter Error code returned"))
                        /\ UNCHANGED pc
                   ELSE UNCHANGED <<pc, fault, running>>
           ELSE /\ pc' = AfterCall(pc)
                /\ UNCHANGED <<drained, fault, running>>
    /\ UNCHANGED <<numeric_error_codes, echo_on, found, count, lines, expected,
                   okret, reply, written>>

(***************************************************************************)
(* Blocking commands (lines 245-290)                                       *)
(***************************************************************************)
\* do_ok_test: the write and the choice of the token to wait for
DoOkTest ==
    /\ running
    /\ pc \in {"ok1_write", "ok2_write"}
    /\ written' = Append(written, OK_COMMAND)
    /\ expected' = IF numeric_error_codes THEN OK_RESULT_NUMERIC ELSE OK_RESULT_VERBOSE
    /\ okret' = FALSE
    /\ pc' = IF pc = "ok1_write" THEN "ok1_wait" ELSE "ok2_wait"
    /\ UNCHANGED <<running, fault, numeric_error_codes, echo_on, found, count, lines,
                   data, drained, reply>>

\* get_version: the write; blocking_get_reply follows
GetVersion ==
    /\ running
    /\ pc = "ver_write"
    /\ written' = Append(written, SHOW_VERSION_COMMAND)
    /\ pc' = "ver_wait"
    /\ UNCHANGED <<running, fault, numeric_error_codes, echo_on, found, count, lines,
                   expected, data, drained, okret, reply>>

\* both echo-off commands written back to back, drained once
SetEchoOffWritePipelined ==
    /\ running
    /\ pc \in {"echo1_write", "echo2_write"}
    /\ written' = IF pc = "echo1_write"
                  THEN written \o <<ECHO_OFF_COMMAND, ECHO_OFF_COMMAND>>
                  ELSE Append(written, ECHO_OFF_COMMAND)
    /\ drained' = 0
    /\ pc' = "echo2_clear"
    /\ UNCHANGED <<running, fault, numeric_error_codes, echo_on, found, count, lines,
                   expected, data, okret, reply>>

\* set_echo_off: the write; clear_replies follows
SetEchoOffWrite ==
    /\ running
    /\ pc \in {"echo1_write", "echo2_write"}
    /\ written' = Append(written, ECHO_OFF_COMMAND)
    /\ drained' = 0
    /\ pc' = IF pc = "echo1_write" THEN "echo1_clear" ELSE "echo2_clear"
    /\ UNCHANGED <<running, fault, numeric_error_codes, echo_on, found, count, lines,
                   expected, data, okret, reply>>

\* an assignment that flips the flag
SetEchoOffAssignToggle ==
    /\ running
    /\ pc \in {"echo1_set", "echo2_set"}
    /\ echo_on' = ~echo_on
    /\ pc' = IF pc = "echo1_set" THEN "echo2_write" ELSE "ok1_write"
    /\ UNCHANGED <<running, fault, numeric_error_codes, found, count, lines, expected,
                   data, drained, okret, reply, written>>

\* an assignment made only when the device sent something
SetEchoOffAssignIfReplied ==
    /\ running
    /\ pc \in {"echo1_set", "echo2_set"}
    /\ echo_on' = IF drained > 0 THEN FALSE ELSE echo_on
    /\ pc' = IF pc = "echo1_set" THEN "echo2_write" ELSE "ok1_write"
    /\ UNCHANGED <<running, fault, numeric_error_codes, found, count, lines, expected,
                   data, drained, okret, reply, written>>

\* set_echo_off: the assignment once clear_replies has returned
SetEchoOffAssign ==
    /\ running
    /\ pc \in {"echo1_set", "echo2_set"}
    /\ echo_on' = FALSE
    /\ pc' = IF pc = "echo1_set" THEN "echo2_write" ELSE "ok1_write"
    /\ UNCHANGED <<running, fault, numeric_error_codes, found, count, lines, expected,
                   data, drained, okret, reply, written>>

\* the command written and the flag set, as set_echo_off does for echo
SetNumericErrorCodesImplemented ==
    /\ running
    /\ pc = "numeric"
    /\ written' = Append(written, VERBOSE_OFF_COMMAND)
    /\ numeric_error_codes' = TRUE
    /\ pc' = "ok2_write"
    /\ UNCHANGED <<running, fault, echo_on, found, count, lines, expected, data,
                   drained, okret, reply>>

\* set_numeric_error_codes builds a MajorError and drops it: nothing is
\* written, nothing is raised, no global is assigned
SetNumericErrorCodes ==
    /\ running
    /\ pc = "numeric"
    /\ pc' = "ok2_write"
    /\ UNCHANGED <<running, fault, numeric_error_codes, echo_on, found, count, lines,
                   expected, data, drained, okret, reply, written>>

\* set_text_error_codes: the same
SetTextErrorCodes ==
    /\ running
    /\ pc = "text"
    /\ pc' = "cmd_returned"
    /\ UNCHANGED <<running, fault, numeric_error_codes, echo_on, found, count, lines,
                   expected, data, drained, okret, reply, written>>

\* get_switches: the same; SWITCH_READ_COMMAND is never written
GetSwitches ==
    /\ running
    /\ pc = "switches"
    /\ pc' = "cmd_returned"
    /\ UNCHANGED <<running, fault, numeric_error_codes, echo_on, found, count, lines,
                   expected, data, drained, okret, reply, written>>

\* set_echo_on: the write; clear_replies follows
SetEchoOnWrite ==
    /\ running
    /\ pc = "echo_on_write"
    /\ written' = Append(written, ECHO_ON_COMMAND)
    /\ drained' = 0
    /\ pc' = "echo_on_clear"
    /\ UNCHANGED <<running, fault, numeric_error_codes, echo_on, found, count, lines,
                   expected, data, okret, reply>>

\* set_echo_on: the assignment once clear_replies has returned
SetEchoOnAssign ==
    /\ running
    /\ pc = "echo_on_set"
    /\ echo_on' = TRUE
    /\ pc' = "cmd_returned"
    /\ UNCHANGED <<running, fault, numeric_error_codes, found, count, lines, expected,
                   data, drained, okret, reply, written>>

(***************************************************************************)
(* reset_arduino (lines 292-329) and main (lines 354-361)                  *)
(***************************************************************************)
NumResets == Len(SelectSeq(written, LAMBDA c : c = RESET_STATE_COMMAND))

\* only the first line of the poll window is looked at
FoundResetFirstLine(ls) == Len(ls) > 0 /\ StartsWith(ls[1], RESET_STATE_RETURN)

\* a line of the poll window starts with RST
FoundReset(ls) == \E i \in 1..Len(ls) : StartsWith(ls[i], RESET_STATE_RETURN)

\* count -= 1, reloaded when it is used up
CountAfter(c) == IF c - 1 <= 0 THEN ResyncCountReload ELSE c - 1

\* set_up_port: open the port and throw away what was waiting in it
SetUpPort ==
    /\ running
    /\ pc = "main"
    /\ pc' = "abort"
    /\ UNCHANGED <<running, fault, numeric_error_codes, echo_on, found, count, lines,
                   expected, data, drained, okret, reply, written>>

\* lines 300-306: the two control bytes, then the loop's locals
AbortLine ==
    /\ running
    /\ pc = "abort"
    /\ written' = written \o <<CONTROL_C_ETX, CONTROL_X_CAN>>
    /\ found' = FALSE
    /\ count' = ResyncCountInit
    /\ pc' = "poll"
    /\ UNCHANGED <<running, fault, numeric_error_codes, echo_on, lines, expected, data,
                   drained, okret, reply>>

\* a loop that gives up when the counter is used up
ResetPollGivesUp ==
    /\ running
    /\ pc = "poll"
    /\ ~found
    /\ NumResets < MaxResets
    /\ written' = Append(written, RESET_STATE_COMMAND)
    /\ \E w \in PollWindows :
        /\ lines' = w
        /\ found' = (found \/ FoundReset(w))
    /\ count' = count - 1
    /\ IF count' <= 0 /\ ~found'
       THEN Raise(SerialSyncError("Having problems resetting arduino")) /\ pc' = pc
       ELSE pc' = (IF found' THEN "drain" ELSE "poll") /\ UNCHANGED <<running, fault>>
    /\ drained' = 0
    /\ UNCHANGED <<numeric_error_codes, echo_on, expected, data, okret, reply>>

\* lines 307-320: one pass of the while loop; leaving the loop enters
\* clear_replies (line 322)
ResetPoll ==
    /\ running
    /\ pc = "poll"
    /\ ~found
    /\ NumResets < MaxResets
    /\ written' = Append(written, RESET_STATE_COMMAND)
    /\ \E w \in PollWindows :
        /\ lines' = w
        /\ found' = (found \/ FoundReset(w))
    /\ count' = CountAfter(count)
    /\ pc' = IF found' THEN "drain" ELSE "poll"
    /\ drained' = 0
    /\ UNCHANGED <<running, fault, numeric_error_codes, echo_on, expected, data, okret,
                   reply>>

\* reset_arduino has returned: main prints "Completed" and ends
Completed ==
    /\ running
    /\ pc = "ready"
    /\ pc' = "done"
    /\ UNCHANGED <<running, fault, numeric_error_codes, echo_on, found, count, lines,
                   expected, data, drained, okret, reply, written>>

(***************************************************************************)
(* The program                                                             *)
(***************************************************************************)
Init ==
    /\ pc = "main"
    /\ running = TRUE
    /\ fault = NoFault
    /\ numeric_error_codes = FALSE
    /\ echo_on = TRUE
    /\ found = FALSE
    /\ count = 0
    /\ lines = <<>>
    /\ expected = <<>>
    /\ data = <<>>
    /\ drained = 0
    /\ okret = FALSE
    /\ reply = <<>>
    /\ written = <<>>
    /\ dev_echo = TRUE
    /\ dev_numeric = FALSE

\* the device's own state is followed only where the device is modelled;
\* here the device may send anything and its state plays no part
DeviceNotFollowed == UNCHANGED <<dev_echo, dev_numeric>>

Next ==
    \/ SetUpPort /\ DeviceNotFollowed
    \/ AbortLine /\ DeviceNotFollowed
    \/ ResetPoll /\ DeviceNotFollowed
    \/ ClearReplies /\ DeviceNotFollowed
    \/ SetEchoOffWrite /\ DeviceNotFollowed
    \/ SetEchoOffAssign /\ DeviceNotFollowed
    \/ DoOkTest /\ DeviceNotFollowed
    \/ BlockingProcessReply /\ DeviceNotFollowed
    \/ GetVersion /\ DeviceNotFollowed
    \/ BlockingGetReply /\ DeviceNotFollowed
    \/ SetNumericErrorCodes /\ DeviceNotFollowed
    \/ Completed /\ DeviceNotFollowed

Spec == Init /\ [][Next]_vars

(***************************************************************************)
(* One reply wait called on its own, with either acknowledgement token     *)
(***************************************************************************)
InitReply ==
    /\ pc \in {"bpr", "bgr", "clr"}
    /\ running = TRUE
    /\ fault = NoFault
    /\ numeric_error_codes = FALSE
    /\ echo_on \in BOOLEAN
    /\ found = FALSE
    /\ count = 0
    /\ lines = <<>>
    /\ expected \in IF pc = "bpr" THEN {OK_RESULT_VERBOSE, OK_RESULT_NUMERIC} ELSE {<<>>}
    /\ data = <<>>
    /\ drained = 0
    /\ okret = FALSE
    /\ reply = <<>>
    /\ written = <<>>
    /\ dev_echo = TRUE
    /\ dev_numeric = FALSE

NextReply ==
    \/ BlockingProcessReply /\ DeviceNotFollowed
    \/ BlockingGetReply /\ DeviceNotFollowed
    \/ ClearReplies /\ DeviceNotFollowed

SpecReply == InitReply /\ [][NextReply]_vars

\* the same, with every pass of a wait loop completing: each read returns
\* within the port's timeout
SpecReplyFair == SpecReply /\ WF_vars(NextReply)

(***************************************************************************)
(* The blocking commands called one after another from the start-up link   *)
(* state; set_echo_off is called the way reset_arduino calls it (lines     *)
(* 323-329: twice, then do_ok_test, get_version, set_numeric_error_codes,  *)
(* do_ok_test)                                                             *)
(***************************************************************************)
InitCmd ==
    /\ pc = "cmd"
    /\ running = TRUE
    /\ fault = NoFault
    /\ numeric_error_codes = FALSE
    /\ echo_on = TRUE
    /\ found = FALSE
    /\ count = 0
    /\ lines = <<>>
    /\ expected = <<>>
    /\ data = <<>>
    /\ drained = 0
    /\ okret = FALSE
    /\ reply = <<>>
    /\ written = <<>>
    /\ dev_echo = TRUE
    /\ dev_numeric = FALSE

\* the caller goes on to its next command
CallCommand ==
    /\ running
    /\ pc \in {"cmd", "cmd_returned", "ready"}
    /\ Len(written) < MaxCmdWrites
    /\ pc' \in {"echo1_write", "echo_on_write", "text", "switches"}
    /\ UNCHANGED <<running, fault, numeric_error_codes, echo_on, found, count, lines,
                   expected, data, drained, okret, reply, written>>

NextCmd ==
    \/ CallCommand /\ DeviceNotFollowed
    \/ ClearReplies /\ DeviceNotFollowed
    \/ SetEchoOffWrite /\ DeviceNotFollowed
    \/ SetEchoOffAssign /\ DeviceNotFollowed
    \/ SetEchoOnWrite /\ DeviceNotFollowed
    \/ SetEchoOnAssign /\ DeviceNotFollowed
    \/ DoOkTest /\ DeviceNotFollowed
    \/ BlockingProcessReply /\ DeviceNotFollowed
    \/ GetVersion /\ DeviceNotFollowed
    \/ BlockingGetReply /\ DeviceNotFollowed
    \/ SetNumericErrorCodes /\ DeviceNotFollowed
    \/ SetTextErrorCodes /\ DeviceNotFollowed
    \/ GetSwitches /\ DeviceNotFollowed

SpecCmd == InitCmd /\ [][NextCmd]_vars

(***************************************************************************)
(* The device at the other end of the port, as the command table says it   *)
(* behaves: E0/E1 switch its echo, V0/V1 its error reporting, ^ makes it   *)
(* answer RST; with echo on it sends the command line back before the      *)
(* answer; a successful command is answered OK, or @Error:0 in numeric     *)
(* mode.                                                                   *)
(***************************************************************************)
\* how many times reset_arduino may be called in a row
MaxRuns == 3

\* the success token in the device's present mode
DevAck == IF dev_numeric THEN F_ERR0 ELSE F_OK

\* the first line the device sends for a command
DevFirstLine(cmd, answer) == IF dev_echo THEN cmd ELSE answer

\* what readlines() gets from a device that answers the reset command: its
\* RST line last, what it still had to send before it
DevResetWindows ==
    { w \in PollWindows : /\ Len(w) > 0
                          /\ w[Len(w)] = F_RST
                          /\ \A i \in 1..Len(w) : w[i] \in PollTerminated }

\* the command the host wrote in this step changes the device's settings; a
\* reset may or may not put them back to the power-on values
DevReact ==
    IF written' = written
    THEN UNCHANGED <<dev_echo, dev_numeric>>
    ELSE LET c == written'[Len(written')] IN
         CASE c = ECHO_OFF_COMMAND -> dev_echo' = FALSE /\ dev_numeric' = dev_numeric
           [] c = ECHO_ON_COMMAND -> dev_echo' = TRUE /\ dev_numeric' = dev_numeric
           [] c = VERBOSE_OFF_COMMAND -> dev_numeric' = TRUE /\ dev_echo' = dev_echo
           [] c = VERBOSE_ON_COMMAND -> dev_numeric' = FALSE /\ dev_echo' = dev_echo
           [] c = RESET_STATE_COMMAND ->
                \/ UNCHANGED <<dev_echo, dev_numeric>>
                \/ dev_echo' = TRUE /\ dev_numeric' = FALSE
           [] OTHER -> UNCHANGED <<dev_echo, dev_numeric>>

\* the command reaches the device, or (on a lossy line) does not
DevHears(lossy) == DevReact \/ (lossy /\ UNCHANGED <<dev_echo, dev_numeric>>)

\* one pass of the reset loop against the device
DevResetPoll(lossy) ==
    /\ ResetPoll
    /\ \/ lines' \in DevResetWindows /\ DevReact
       \/ lossy /\ lines' = <<>> /\ UNCHANGED <<dev_echo, dev_numeric>>

\* clear_replies against the device: at most one line is still on its way
DevClearReplies ==
    /\ ClearReplies
    /\ \/ data' = P_EMPTY
       \/ drained = 0 /\ data' \in {DevAck, F_INFO, F_RST}
    /\ UNCHANGED <<dev_echo, dev_numeric>>

\* the wait of do_ok_test against the device
DevBlockingProcessReply(lossy) ==
    /\ BlockingProcessReply
    /\ \/ data' = DevFirstLine(OK_COMMAND, DevAck)
       \/ lossy /\ data' = P_EMPTY
    /\ UNCHANGED <<dev_echo, dev_numeric>>

\* the wait of get_version against the device
DevBlockingGetReply(lossy) ==
    /\ BlockingGetReply
    /\ \/ data' = DevFirstLine(SHOW_VERSION_COMMAND, F_VERSION)
       \/ lossy /\ data' = P_EMPTY
    /\ UNCHANGED <<dev_echo, dev_numeric>>

NumRuns == Len(SelectSeq(written, LAMBDA c : c = CONTROL_C_ETX))

\* reset_arduino called again once it has returned
Rerun ==
    /\ running
    /\ pc = "ready"
    /\ NumRuns < MaxRuns
    /\ pc' = "abort"
    /\ UNCHANGED <<running, fault, numeric_error_codes, echo_on, found, count, lines,
                   expected, data, drained, okret, reply, written>>
    /\ UNCHANGED <<dev_echo, dev_numeric>>

\* reset_arduino, called up to MaxRuns times, against a device that hears and
\* answers every command
NextRerun ==
    \/ SetUpPort /\ DevReact
    \/ AbortLine /\ DevReact
    \/ DevResetPoll(FALSE)
    \/ DevClearReplies
    \/ SetEchoOffWrite /\ DevReact
    \/ SetEchoOffAssign /\ DevReact
    \/ DoOkTest /\ DevReact
    \/ DevBlockingProcessReply(FALSE)
    \/ GetVersion /\ DevReact
    \/ DevBlockingGetReply(FALSE)
    \/ SetNumericErrorCodes /\ DevReact
    \/ Rerun

SpecRerun == Init /\ [][NextRerun]_vars /\ WF_vars(NextRerun)

\* the device is in any state when the program starts
InitDev ==
    /\ pc = "main"
    /\ running = TRUE
    /\ fault = NoFault
    /\ numeric_error_codes = FALSE
    /\ echo_on = TRUE
    /\ found = FALSE
    /\ count = 0
    /\ lines = <<>>
    /\ expected = <<>>
    /\ data = <<>>
    /\ drained = 0
    /\ okret = FALSE
    /\ reply = <<>>
    /\ written = <<>>
    /\ dev_echo \in BOOLEAN
    /\ dev_numeric \in BOOLEAN

\* main against a device on a line that may lose a command or an answer
NextDev ==
    \/ SetUpPort /\ DevReact
    \/ AbortLine /\ DevReact
    \/ DevResetPoll(TRUE)
    \/ DevClearReplies
    \/ SetEchoOffWrite /\ DevHears(TRUE)
    \/ SetEchoOffAssign /\ DevReact
    \/ DoOkTest /\ DevReact
    \/ DevBlockingProcessReply(TRUE)
    \/ GetVersion /\ DevReact
    \/ DevBlockingGetReply(TRUE)
    \/ SetNumericErrorCodes /\ DevReact
    \/ Completed /\ DevReact

SpecDev == InitDev /\ [][NextDev]_vars

(***************************************************************************)
(* Vocabulary of the properties                                            *)
(***************************************************************************)
\* a newline-terminated frame
Terminated(d) == Len(d) > 0 /\ d[Len(d)] = 10
\* a frame that begins with @Error:
ErrorFrame(d) == Terminated(d) /\ Len(d) >= 7 /\ SubSeq(d, 1, 7) = ERROR_PREFIX
\* a frame that begins with @ but not with @Error:
InfoFrame(d) == Terminated(d) /\ d[1] = 64 /\ ~ErrorFrame(d)
\* the fault raised when a read times out before a newline
TimeoutFault == SerialSyncError("Newline not found - timeout")

\* blocking_process_reply is reading
BprWaiting == pc \in {"bpr", "ok1_wait", "ok2_wait"}
\* blocking_process_reply has returned True and data is still its last frame
BprReturned == okret /\ pc \in {"bpr_returned", "ver_write", "ready", "done"}
\* blocking_get_reply is reading
BgrWaiting == pc \in {"bgr", "ver_wait"}
\* blocking_get_reply has returned and data is still its last frame
BgrReturned == pc \in {"bgr_returned", "numeric"}

(***************************************************************************)
(* C1: blocking_process_reply returns success if and only if a frame       *)
(* exactly equal to the expected token arrives before any error frame,     *)
(* unexpected frame or timeout: success is on an exactly equal frame, and  *)
(* the wait does not fail on a frame that is merely unsolicited.           *)
(***************************************************************************)
C1_ExactMatchIff ==
    /\ BprReturned => data = expected \o NEWLINE
    /\ (BprWaiting /\ ~running) => ~InfoFrame(data)

(***************************************************************************)
(* C2: in blocking_process_reply and blocking_get_reply a frame that       *)
(* begins with @Error: (other than the awaited acknowledgement itself)     *)
(* ends the wait with SerialSyncError.                                     *)
(***************************************************************************)
C2_ErrorFrameFaults ==
    /\ (BprWaiting /\ ErrorFrame(data) /\ data # expected \o NEWLINE)
          => (~running /\ fault.cls = "SerialSyncError")
    /\ (BgrWaiting /\ ErrorFrame(data))
          => (~running /\ fault.cls = "SerialSyncError")
    /\ BgrReturned => ~ErrorFrame(data)

(***************************************************************************)
(* C3: while blocking_process_reply waits, a frame that begins with @ but  *)
(* not with @Error: is discarded: the wait neither succeeds nor fails on   *)
(* it.                                                                     *)
(***************************************************************************)
C3_InfoFrameDiscarded ==
    /\ (BprWaiting /\ InfoFrame(data)) => (running /\ fault = NoFault)
    /\ BprReturned => ~InfoFrame(data)

(***************************************************************************)
(* C4: blocking_get_reply returns, with its terminator, the first frame    *)
(* that is not an unsolicited @-prefixed frame; an unsolicited frame is    *)
(* never the value returned.                                               *)
(***************************************************************************)
C4_ReplyNotUnsolicited ==
    BgrReturned => (reply = data /\ Terminated(reply) /\ reply[1] # 64)

(***************************************************************************)
(* C5: in blocking_process_reply and blocking_get_reply a read that times  *)
(* out before a newline makes the wait fail with the timeout fault; bytes  *)
(* without a terminator (an empty read included) are never matched against *)
(* the expected token and never returned as a reply.                       *)
(***************************************************************************)
C5_TimeoutFaults ==
    /\ [][((BprWaiting \/ BgrWaiting) /\ ~Terminated(data'))
            => (/\ ~running'
                /\ fault' = TimeoutFault
                /\ pc' = pc
                /\ okret' = okret
                /\ reply' = reply)]_vars
    /\ [](BprReturned => Terminated(data))
    /\ [](BgrReturned => Terminated(reply))
    /\ []((BprWaiting \/ BgrWaiting) /\ fault = TimeoutFault => ~Terminated(data))

\* a wait for OK has failed with the timeout fault on the bytes OK without newline
C5_Witness ==
    /\ pc = "bpr"
    /\ expected = OK_RESULT_VERBOSE
    /\ data = P_OK
    /\ ~running
    /\ fault = TimeoutFault
    /\ ~okret

(***************************************************************************)
(* Stages of the resynchronisation sequence, read off the program position *)
(***************************************************************************)
\* 0 Unknown, 1 AbortingLine, 2 Resetting, 3 LinkVerified, 4 EchoSuppressed,
\* 5 ProtocolConfirmed, 6 Ready
StageOf(p) ==
    CASE p \in {"main", "abort"} -> 0
      [] p = "poll" -> 1
      [] p \in {"drain", "echo1_write", "echo1_clear", "echo1_set",
                "echo2_write", "echo2_clear", "echo2_set"} -> 2
      [] p \in {"ok1_write", "ok1_wait"} -> 3
      [] p \in {"ver_write", "ver_wait"} -> 4
      [] p \in {"numeric", "ok2_write", "ok2_wait"} -> 5
      [] OTHER -> 6

\* some line of a poll window begins with RST
HasRstLine(ls) ==
    \E i \in 1..Len(ls) : Len(ls[i]) >= 3 /\ SubSeq(ls[i], 1, 3) = RESET_STATE_RETURN

\* k copies of the reset command
Resets(k) == [i \in 1..k |-> RESET_STATE_COMMAND]

\* everything a complete run with k reset commands writes
AllWrites(k) ==
    <<CONTROL_C_ETX, CONTROL_X_CAN>> \o Resets(k)
        \o <<ECHO_OFF_COMMAND, ECHO_OFF_COMMAND, OK_COMMAND, SHOW_VERSION_COMMAND,
             OK_COMMAND>>

\* how many of the five writes after the resets a position has behind it
WritesAfterResets(p) ==
    CASE p \in {"main", "abort", "poll", "drain", "echo1_write"} -> 0
      [] p \in {"echo1_clear", "echo1_set", "echo2_write"} -> 1
      [] p \in {"echo2_clear", "echo2_set", "ok1_write"} -> 2
      [] p \in {"ok1_wait", "ver_write"} -> 3
      [] p \in {"ver_wait", "numeric", "ok2_write"} -> 4
      [] OTHER -> 5

(***************************************************************************)
(* C6: reset_arduino passes through Unknown, AbortingLine, Resetting,      *)
(* LinkVerified, EchoSuppressed, ProtocolConfirmed, Ready in this order,   *)
(* one stage at a time; what it has written is always the start of         *)
(* 0x03, 0x18, one or more ^, E0, E0, ?, v, ?; each stage is entered by    *)
(* the event that ends the one before it (reset acknowledgement seen,      *)
(* acknowledgement test passed, version reply captured, final test         *)
(* passed), and Ready is reached with no fault and all of it written.      *)
(***************************************************************************)
C6_StagesInOrder ==
    /\ [][StageOf(pc') = StageOf(pc) \/ StageOf(pc') = StageOf(pc) + 1]_vars
    /\ [][StageOf(pc') = StageOf(pc) + 1 =>
            CASE StageOf(pc) = 0 -> written' = <<CONTROL_C_ETX, CONTROL_X_CAN>>
              [] StageOf(pc) = 1 -> HasRstLine(lines') /\ NumResets' >= 1
              [] StageOf(pc) = 2 -> ~echo_on'
              [] StageOf(pc) = 3 -> okret' /\ Terminated(data')
                                      /\ SubSeq(data', 1, Len(expected)) = expected
              [] StageOf(pc) = 4 -> reply' = data' /\ Terminated(reply')
              [] OTHER -> okret' /\ Terminated(data')
                            /\ SubSeq(data', 1, Len(expected)) = expected]_vars
    /\ [](pc \in ProgramPcs)
    /\ [](StageOf(pc) >= 1 =>
            written = SubSeq(AllWrites(NumResets), 1,
                             2 + NumResets + WritesAfterResets(pc)))
    /\ [](StageOf(pc) = 6 =>
            running /\ fault = NoFault /\ NumResets >= 1
              /\ written = AllWrites(NumResets))

\* Ready after two reset commands
C6_Witness ==
    /\ pc = "ready"
    /\ NumResets = 2
    /\ reply = F_VERSION
    /\ data = F_OK

(***************************************************************************)
(* C7: the last step of reset_arduino switches to numeric error codes:     *)
(* in Ready numeric_error_codes is true and the re-run acknowledgement     *)
(* test waited for @Error:0.                                               *)
(***************************************************************************)
C7_NumericInReady ==
    StageOf(pc) = 6 => (numeric_error_codes /\ expected = OK_RESULT_NUMERIC)

(***************************************************************************)
(* C8: the reset acknowledgement is recognised exactly when some line of   *)
(* the poll window, first or later, begins with RST; the pass that         *)
(* recognises it is the last one, so no further ^ is written, and an RST   *)
(* in the first window leaves exactly one ^ written.                       *)
(***************************************************************************)
C8_ResetRecognised ==
    /\ [](StageOf(pc) >= 1 => (found <=> HasRstLine(lines)))
    /\ [](found <=> StageOf(pc) >= 2)
    /\ [][found => NumResets' = NumResets]_vars
    /\ [][(pc = "poll" /\ HasRstLine(lines'))
            => (pc' = "drain" /\ NumResets' = NumResets + 1)]_vars

\* recognised in the first window, on its second line: one reset command written
C8_Witness ==
    /\ pc = "drain"
    /\ found
    /\ NumResets = 1
    /\ lines = <<F_OK, F_RST>>

(***************************************************************************)
(* C9: when the attempt counter (initially 50) is used up without a reset  *)
(* acknowledgement it is reloaded and the loop goes on: the loop is left   *)
(* only with an acknowledgement seen, never by a fault, and as long as no  *)
(* acknowledgement comes another reset command can always be written.      *)
(***************************************************************************)
C9_RetryForever ==
    /\ [][pc = "poll" =>
            /\ running' /\ fault' = NoFault
            /\ pc' = "poll" \/ (found' /\ HasRstLine(lines'))
            /\ count' >= 1
            /\ count = 1 => count' = ResyncCountReload]_vars
    /\ [][pc = "abort" => count' = ResyncCountInit]_vars
    /\ []((pc = "poll" /\ NumResets < MaxResets) => ENABLED ResetPoll)

\* the counter was used up, reloaded, and a further reset command was written
C9_Witness ==
    /\ pc = "poll"
    /\ ~found
    /\ NumResets = ResyncCountInit + 1
    /\ count = ResyncCountReload - 1

(***************************************************************************)
(* C10: a fault raised in reset_arduino after the line-abort step is not   *)
(* retried or swallowed: it ends the run where it was raised, nothing is   *)
(* written afterwards, the link state stays as it was and Ready is not     *)
(* reached.                                                                *)
(***************************************************************************)
C10_FaultPropagates ==
    /\ [](fault # NoFault => (~running /\ StageOf(pc) # 6))
    /\ [][fault # NoFault =>
            /\ pc' = pc
            /\ written' = written
            /\ echo_on' = echo_on
            /\ numeric_error_codes' = numeric_error_codes
            /\ fault' = fault]_vars
    /\ [][fault' # fault =>
            /\ written' = written
            /\ echo_on' = echo_on
            /\ numeric_error_codes' = numeric_error_codes]_vars

\* the first acknowledgement test failed on an echoed command
C10_Witness ==
    /\ pc = "ok1_wait"
    /\ ~running
    /\ fault = SerialSyncError("Unexpected return data")
    /\ data = F_ECHO

(***************************************************************************)
(* C11: set_echo_off is idempotent on the link state: after one call that  *)
(* returns and after two calls in succession echo_on is false, whatever    *)
(* the device sent and whatever echo_on was before.                        *)
(***************************************************************************)
C11_EchoOffIdempotent ==
    /\ [][(pc \in {"echo1_set", "echo2_set"}) => echo_on' = FALSE]_vars
    /\ [](pc \in {"echo2_write", "echo2_clear", "echo2_set", "ok1_write"} => ~echo_on)

\* echo_on was set by set_echo_on, the device sent nothing to either
\* set_echo_off, and the second call has returned
C11_Witness ==
    /\ pc = "ok1_write"
    /\ written = <<ECHO_ON_COMMAND, ECHO_OFF_COMMAND, ECHO_OFF_COMMAND>>
    /\ drained = 0
    /\ data = P_EMPTY
    /\ ~echo_on

(***************************************************************************)
(* C13: get_switches writes s and a newline to the port and then waits     *)
(* for the reply (so that a silent device makes it fail with the timeout   *)
(* fault) instead of returning at once.                                    *)
(***************************************************************************)
C13_SwitchesWritesAndWaits ==
    [][pc = "switches" =>
         (written' = Append(written, SWITCH_READ_COMMAND) /\ pc' # "cmd_returned")]_vars

(***************************************************************************)
(* C14: one command in flight: a step that writes is never taken while a   *)
(* wait is open, it writes one command frame (the two abort bytes apart),  *)
(* it opens the wait for that command (a pass of the reset loop holds its  *)
(* own poll read), and a wait is left only when it has ended: with the     *)
(* matching reply, a reply, a read without terminator, or a fault.         *)
(***************************************************************************)
WaitOpen(p) == p \in {"echo1_clear", "echo2_clear", "ok1_wait", "ver_wait", "ok2_wait"}

C14_OneCommandInFlight ==
    /\ [][written' # written =>
            /\ ~WaitOpen(pc)
            /\ IF pc = "abort"
               THEN written' = written \o <<CONTROL_C_ETX, CONTROL_X_CAN>>
               ELSE Len(written') = Len(written) + 1
            /\ WaitOpen(pc') \/ pc \in {"abort", "poll"}
            /\ pc = "poll" => (NumResets' = NumResets + 1 /\ (pc' = "poll" <=> ~HasRstLine(lines')))]_vars
    /\ [][(WaitOpen(pc) /\ pc' # pc) =>
            /\ running' /\ written' = written
            /\ pc \in {"ok1_wait", "ok2_wait"} => (okret' /\ Terminated(data'))
            /\ pc = "ver_wait" => (reply' = data' /\ Terminated(data'))
            /\ pc \in {"echo1_clear", "echo2_clear"} => ~Terminated(data')]_vars
    /\ [](WaitOpen(pc) => Len(written) > 0)

\* the device never answered the first reset command: the poll read ended
\* empty and a second reset command was written
C14_Witness ==
    /\ pc = "poll"
    /\ NumResets = 2
    /\ lines = <<>>
    /\ ~found

(***************************************************************************)
(* C15 as stated: every reply wait (blocking_process_reply,                *)
(* blocking_get_reply, clear_replies) eventually returns or raises, for    *)
(* every device behaviour.                                                 *)
(***************************************************************************)
C15_EveryWaitTerminates ==
    <>(~running \/ pc \in {"bpr_returned", "bgr_returned", "clr_returned"})

(***************************************************************************)
(* C15 amended: blocking_process_reply and blocking_get_reply eventually   *)
(* return or raise for every device behaviour; clear_replies returns       *)
(* exactly on a read without a newline and otherwise stays in its loop.    *)
(***************************************************************************)
C15_ReplyWaitsTerminate ==
    /\ [](pc \in {"bpr", "bgr"} => <>(~running \/ pc \in {"bpr_returned", "bgr_returned"}))
    /\ [][pc = "clr" => (pc' = "clr_returned" <=> ~Terminated(data'))]_vars

\* clear_replies still reading after MaxDrain terminated lines
C15_Witness ==
    /\ pc = "clr"
    /\ running
    /\ drained = MaxDrain
    /\ data = F_OK

(***************************************************************************)
(* C16: clear_replies sends every @-prefixed frame through                 *)
(* process_unsolicited_data, so an @Error: frame read while draining       *)
(* raises SerialSyncError.                                                 *)
(***************************************************************************)
C16_DrainRaisesOnError ==
    (pc \in {"clr", "drain", "echo1_clear", "echo2_clear", "echo_on_clear"}
        /\ ErrorFrame(data))
      => (~running /\ fault.cls = "SerialSyncError")

(***************************************************************************)
(* C17 as stated: a wait that fails on a read timeout fails with a fault   *)
(* kind of its own (TimeoutFault), never the kind raised for an unexpected *)
(* frame or a device error (SerialSyncError).                              *)
(***************************************************************************)
C17_DistinctFaultKinds ==
    ((BprWaiting \/ BgrWaiting) /\ ~running) =>
        /\ ~Terminated(data) => fault.cls = "TimeoutFault"
        /\ Terminated(data) => fault.cls = "SerialSyncError"

(***************************************************************************)
(* C17 amended: both causes raise the same class, SerialSyncError; they    *)
(* differ in the message only: "Newline not found - timeout" exactly when  *)
(* the read had no terminator.                                             *)
(***************************************************************************)
C17_SameKindDistinctMessage ==
    ((BprWaiting \/ BgrWaiting) /\ ~running) =>
        /\ fault.cls = "SerialSyncError"
        /\ fault.msg = "Newline not found - timeout" <=> ~Terminated(data)
        /\ Terminated(data) =>
              fault.msg \in {"Unexpected return data", "Interpreter Error code returned"}

\* blocking_get_reply failed on an empty read
C17_Witness ==
    /\ pc = "bgr"
    /\ ~running
    /\ data = P_EMPTY
    /\ fault.cls = "SerialSyncError"
    /\ fault.msg = "Newline not found - timeout"

(***************************************************************************)
(* C18 as stated: the link state starts as echo on, text errors; only the  *)
(* toggle commands change it; a toggle changes its flag only once the      *)
(* device has confirmed, never when the device sent no reply at all.       *)
(***************************************************************************)
C18_ToggleOnlyWhenConfirmed ==
    /\ (echo_on = TRUE /\ numeric_error_codes = FALSE)
    /\ [][(echo_on' # echo_on \/ numeric_error_codes' # numeric_error_codes)
            => pc \in {"echo1_set", "echo2_set", "echo_on_set", "numeric", "text"}]_vars
    /\ [][echo_on' # echo_on => drained > 0]_vars

(***************************************************************************)
(* C18 amended: the link state starts as echo on, text errors; echo_on is  *)
(* changed only by the assignment of set_echo_off and set_echo_on, which   *)
(* is made as soon as clear_replies returns, also when the device sent     *)
(* nothing; no command changes numeric_error_codes.                        *)
(***************************************************************************)
C18_LinkStateFrame ==
    /\ (echo_on = TRUE /\ numeric_error_codes = FALSE)
    /\ [][echo_on' # echo_on => pc \in {"echo1_set", "echo2_set", "echo_on_set"}]_vars
    /\ [][numeric_error_codes' = numeric_error_codes]_vars
    /\ [][(pc \in {"echo1_set", "echo2_set"}) => echo_on' = FALSE]_vars
    /\ [][pc = "echo_on_set" => echo_on' = TRUE]_vars

\* set_echo_off has cleared the flag although the device sent nothing
C18_Witness ==
    /\ pc = "echo2_write"
    /\ written = <<ECHO_OFF_COMMAND>>
    /\ drained = 0
    /\ data = P_EMPTY
    /\ ~echo_on

(***************************************************************************)
(* C19: the reset loop takes the reset acknowledgement only from a         *)
(* newline-terminated line: RST cut off by the read timeout does not end   *)
(* the loop.                                                               *)
(***************************************************************************)
C19_ResetFromTerminatedLine ==
    found => \E i \in 1..Len(lines) :
                 Terminated(lines[i]) /\ SubSeq(lines[i], 1, 3) = RESET_STATE_RETURN

(***************************************************************************)
(* C12: reset_arduino run again from Ready, once or twice, against a       *)
(* device that answers every command: no run faults, every run that has    *)
(* started comes back to Ready, and at Ready the link state is the same    *)
(* each time (echo off, text errors) with the expected token being the one *)
(* the device sends in its present mode.                                   *)
(***************************************************************************)
C12_RerunReturnsToReady ==
    /\ [](running /\ fault = NoFault)
    /\ [](pc \in {"ok1_wait", "ok2_wait", "ready"} => expected \o NEWLINE = DevAck)
    /\ [](pc = "ready" =>
            (echo_on = FALSE /\ numeric_error_codes = FALSE /\ dev_echo = FALSE))
    /\ [](pc = "abort" => <>(pc = "ready"))

\* the third run in a row has come back to Ready
C12_Witness ==
    /\ pc = "ready"
    /\ NumRuns = MaxRuns
    /\ running
    /\ ~echo_on
    /\ expected = OK_RESULT_VERBOSE

(***************************************************************************)
(* C20: when reset_arduino has returned, the host's link state is the      *)
(* device's: echo_on is false and the device's echo is off, and the token  *)
(* chosen by numeric_error_codes is the one the device sends in its mode;  *)
(* with the device's echo still on the first acknowledgement test reads    *)
(* the echoed command and faults, so nothing after it is reached.          *)
(***************************************************************************)
C20_ReadyAgreesWithDevice ==
    /\ pc \in {"ready", "done"} =>
          /\ echo_on = FALSE /\ dev_echo = FALSE
          /\ numeric_error_codes = dev_numeric
          /\ (IF numeric_error_codes THEN OK_RESULT_NUMERIC ELSE OK_RESULT_VERBOSE)
                 \o NEWLINE = DevAck
    /\ StageOf(pc) >= 4 => dev_echo = FALSE
    /\ (pc = "ok1_wait" /\ dev_echo /\ Terminated(data)) =>
          /\ data = OK_COMMAND
          /\ ~running
          /\ fault = SerialSyncError("Unexpected return data")

\* Ready reached against a device that started in numeric mode with echo on
\* and lost nothing it needed
C20_Witness ==
    /\ pc = "ready"
    /\ running
    /\ ~echo_on /\ ~dev_echo
    /\ ~numeric_error_codes /\ ~dev_numeric
    /\ expected = OK_RESULT_VERBOSE
    /\ data = F_OK

\* both echo-off commands were lost: the acknowledgement test read the echo
C20_EchoStillOn ==
    /\ pc = "ok1_wait"
    /\ ~running
    /\ dev_echo
    /\ data = OK_COMMAND
    /\ ~echo_on

====
